---- MODULE Spec2Model ----
(***************************************************************************)
(* A model of the SPX sector-momentum backtester: the signal generator     *)
(* (strategy/momentum_sector_LS.py), the benchmark (benchmark.py), the     *)
(* turnover function (stats_calculator.py) and the orchestrator            *)
(* (backtest.py).                                                          *)
(*                                                                         *)
(* Numbers.  The program computes in floating point; the model computes    *)
(* the same quantities exactly, as integers in fixed units:                *)
(*   a return            in units of 1/RetScale                            *)
(*   a sector average    in units of 1/(RetScale*AssetLcm)                 *)
(*   a momentum score    in units of 1/(RetScale*AssetLcm*PeriodLcm)       *)
(*   a strategy weight   in units of 1/WScale                              *)
(*   a benchmark weight  in units of 1/BScale                              *)
(* A missing value (numpy.nan) is the value NaN.  The price and presence   *)
(* panels are the panels at period ends: one row per trading period.       *)
(***************************************************************************)
EXTENDS Integers, Sequences, FiniteSets, TLC

\* ---------------------------------------------------------------- bounds
NumPeriods == 4
NumAssets == 5
TurnCols == 2
TurnRows == 3
NumStrategies == 2

\* ------------------------------------------------------------ basic data
NaN == -1000000

None == <<>>
Some(x) == <<x>>
Get(o) == o[1]

Periods == 0 .. (NumPeriods - 1)
Assets == 1 .. NumAssets
PriceVals == {1, 2}

\* permno -> sector (hsiccd): the first two assets share a sector, every
\* other asset is alone in its sector.
SectorOf(a) == IF a <= 2 THEN 1 ELSE a - 1
AllSectors == {SectorOf(a) : a \in Assets}

RECURSIVE Fact(_)
Fact(n) == IF n <= 1 THEN 1 ELSE n * Fact(n - 1)

RECURSIVE SetProduct(_)
SetProduct(S) ==
  IF S = {} THEN 1
  ELSE LET x == CHOOSE y \in S : TRUE IN x * SetProduct(S \ {x})

RECURSIVE SetMax(_)
SetMax(S) ==
  LET x == CHOOSE y \in S : TRUE
  IN IF S = {x} THEN x
     ELSE LET m == SetMax(S \ {x}) IN IF x > m THEN x ELSE m

RetScale == SetProduct(PriceVals)
AssetLcm == Fact(SetMax({Cardinality({a \in Assets : SectorOf(a) = s}) : s \in AllSectors}))
PeriodLcm == Fact(NumPeriods)
MaxSelected == Cardinality(AllSectors) \div 2
WScale == Fact(MaxSelected)
BScale == Fact(NumAssets)

\* A function with its values computed once (a pandas object holds its
\* values; it does not recompute them on access).
Materialize(f) == IF f = f THEN f ELSE f

\* ------------------------------------------------- missing-value arithmetic
IsNaN(x) == x = NaN
Mul(x, y) == IF IsNaN(x) \/ IsNaN(y) THEN NaN ELSE x * y
Sub(x, y) == IF IsNaN(x) \/ IsNaN(y) THEN NaN ELSE x - y
Neg(x) == IF IsNaN(x) THEN NaN ELSE 0 - x
Abs(x) == IF IsNaN(x) THEN NaN ELSE IF x < 0 THEN 0 - x ELSE x
FillNa0(x) == IF IsNaN(x) THEN 0 ELSE x

RECURSIVE SumFn(_, _)
SumFn(f, S) ==
  IF S = {} THEN 0
  ELSE LET x == CHOOSE y \in S : TRUE IN f[x] + SumFn(f, S \ {x})

\* Series.sum() / DataFrame.sum(axis=1): missing values are skipped, and the
\* sum of nothing is 0.
NanSum(f, S) == SumFn(f, {x \in S : ~IsNaN(f[x])})
NanCount(f, S) == Cardinality({x \in S : ~IsNaN(f[x])})

\* mean(): the mean of the values present, times `lcm` (a multiple of every
\* possible count, so the quotient is exact); missing when none is present.
NanMeanScaled(f, S, lcm) ==
  LET c == NanCount(f, S)
  IN IF c = 0 THEN NaN ELSE NanSum(f, S) * (lcm \div c)

\* -------------------------------------------------------------- frames
\* A DataFrame: its index (periods), its columns, and data[t][c].  A Series
\* is a frame without columns: data[t].
Frame(idx, cols, f) == [index |-> idx, columns |-> cols, data |-> Materialize(f)]
Series(idx, f) == [index |-> idx, data |-> Materialize(f)]

FirstLabel(idx) == CHOOSE t \in idx : \A u \in idx : t <= u
PrevLabel(idx, t) == CHOOSE p \in idx : p < t /\ \A u \in idx : u < t => u <= p

\* DataFrame.shift(1): each row moves down one place; the first row is missing.
Shift1(F) ==
  Frame(F.index, F.columns,
        [t \in F.index |->
           IF t = FirstLabel(F.index)
           THEN [c \in F.columns |-> NaN]
           ELSE F.data[PrevLabel(F.index, t)]])

\* DataFrame.diff(): row t minus row t-1; the first row is missing.
Minus(F, G) ==
  Frame(F.index, F.columns,
        [t \in F.index |-> [c \in F.columns |-> Sub(F.data[t][c], G.data[t][c])]])
Diff(F) == Minus(F, Shift1(F))

\* DataFrame.abs().sum(axis=1)
AbsRowSum(F) ==
  Series(F.index,
         [t \in F.index |->
            LET a == [c \in F.columns |-> Abs(F.data[t][c])]
            IN NanSum(a, F.columns)])

\* DataFrame.loc[date_mask]
LocRows(F, idx) == Frame(idx, F.columns, [t \in idx |-> F.data[t]])

\* ------------------------------------------------ stats_calculator.py
\* calculate_turnover: positions.iloc[0] of a frame without rows raises
\* IndexError.
TurnoverRaises(positions) == positions.index = {}

\* positions.diff().abs().sum(axis=1)
DiffTurnover(positions) == AbsRowSum(Diff(positions))

SetInitialTurnover_Dropped(turnover, positions) == turnover

\* turnover.iloc[0] = positions.iloc[0].abs().sum()
SetInitialTurnover(turnover, positions) ==
  Series(turnover.index,
         [t \in turnover.index |->
            IF t = FirstLabel(positions.index)
            THEN NanSum([c \in positions.columns |->
                           Abs(positions.data[FirstLabel(positions.index)][c])],
                        positions.columns)
            ELSE turnover.data[t]])

calculate_turnover(positions) ==
  SetInitialTurnover(DiffTurnover(positions), positions)

\* --------------------------------------- strategy/momentum_sector_LS.py
StrategyName == "Momentum Sector Long-Short Strategy"
DefaultNumSectors == 5
DefaultStartDate == 0

\* str.upper() on the strings the model uses.
UpperTable ==
  [m |-> "M", d |-> "D", w |-> "W", q |-> "Q", l |-> "L", s |-> "S",
   ls |-> "LS", all |-> "ALL", x |-> "X", xyz |-> "XYZ"] @@ ("2w" :> "2W")
Upper(str) == IF str \in DOMAIN UpperTable THEN UpperTable[str] ELSE str

\* The frequency strings DataFrame.resample accepts (pandas offset aliases).
PandasAliases == {"D", "W", "2W", "M", "Q"}

freq_to_periods == [D |-> 252, W |-> 52, M |-> 12] @@ ("2W" :> 26)
valid_legs == {"L", "S", "LS", "ALL"}

\* kwargs: a record of optional values, None for a key that is not passed.
NoKwargs ==
  [num_sectors |-> None, trading_frequency |-> None, start_date |-> None,
   end_date |-> None, invert_long |-> None, invert_short |-> None, legs |-> None]
KwGet(kwargs, key, default) ==
  IF kwargs[key] = None THEN default ELSE Get(kwargs[key])

\* set_parameters, lines 30-36: every attribute is assigned before the leg
\* code is validated.
AssignParameters(self, kwargs) ==
  [self EXCEPT
     !.num_sectors = KwGet(kwargs, "num_sectors", DefaultNumSectors),
     !.trading_frequency = Some(Upper(KwGet(kwargs, "trading_frequency", "M"))),
     !.start_date = Some(KwGet(kwargs, "start_date", DefaultStartDate)),
     !.end_date = kwargs.end_date,
     !.invert_long = KwGet(kwargs, "invert_long", FALSE),
     !.invert_short = KwGet(kwargs, "invert_short", FALSE),
     !.legs = Upper(KwGet(kwargs, "legs", "ALL"))]

\* set_parameters, lines 38-41
SetParametersRaises(self, kwargs) ==
  AssignParameters(self, kwargs).legs \notin valid_legs

\* __init__: set_parameters() with no argument, then the attributes are
\* assigned again, lines 14-27.
NewStrategy ==
  LET blank ==
        [name |-> StrategyName,
         num_sectors |-> 0, trading_frequency |-> None, start_date |-> None,
         end_date |-> None, invert_long |-> FALSE, invert_short |-> FALSE,
         legs |-> "ALL",
         positions |-> None, asset_returns |-> None, spx500_returns |-> None,
         top_presence_matrix |-> None, bottom_presence_matrix |-> None,
         combined_presence_matrix |-> None]
      configured == AssignParameters(blank, NoKwargs)
  IN [configured EXCEPT
        !.asset_returns = None,
        !.trading_frequency = None,
        !.start_date = None,
        !.end_date = None,
        !.invert_long = FALSE,
        !.invert_short = FALSE,
        !.legs = "ALL",
        !.top_presence_matrix = None,
        !.bottom_presence_matrix = None,
        !.combined_presence_matrix = None]

\* _determine_window_size.  int((11 / 12) * periods_per_year) is 231, 47, 23
\* and 11 for the four table entries, the same as the integer quotient here.
WindowSizeRaises(trading_frequency) ==
  trading_frequency \notin DOMAIN freq_to_periods
_determine_window_size_Rounded(trading_frequency) ==
  ((22 * freq_to_periods[trading_frequency]) + 12) \div 24
_determine_window_size(trading_frequency) ==
  LET periods_per_year == freq_to_periods[trading_frequency]
      window_size == (11 * periods_per_year) \div 12
  IN IF window_size < 1 THEN 1 ELSE window_size

\* DataFrame.resample(freq).last() of a panel that already has one row per
\* period end: each period holds one observation, its last.
Resample(F, freq) == F

\* (p1 - p0) / p0 in units of 1/RetScale; missing when a price is missing.
Pct(p0, p1) ==
  IF IsNaN(p0) \/ IsNaN(p1) THEN NaN ELSE ((p1 * RetScale) \div p0) - RetScale

\* DataFrame.pct_change(): the first row is missing.
PctChange(F) ==
  Frame(F.index, F.columns,
        [t \in F.index |->
           IF t = FirstLabel(F.index)
           THEN [c \in F.columns |-> NaN]
           ELSE [c \in F.columns |-> Pct(F.data[PrevLabel(F.index, t)][c], F.data[t][c])]])

\* lines 56-59: the rows from start_date to end_date (a None end_date is
\* falsy: no upper limit).
DateMask(index, start_date, end_date) ==
  {t \in index : t >= Get(start_date) /\ (end_date = None \/ t <= Get(end_date))}

\* line 64: the presence that gates the return of row t.
GatingPresence_SamePeriod(presence_matrix_resampled) == presence_matrix_resampled
GatingPresence(presence_matrix_resampled) == Shift1(presence_matrix_resampled)

\* line 64: spx_returns.multiply(presence_matrix_resampled.shift(1), axis=0)
Multiplied(spx_returns, gate) ==
  Frame(spx_returns.index, spx_returns.columns,
        [t \in spx_returns.index |->
           [a \in spx_returns.columns |->
              Mul(spx_returns.data[t][a], gate.data[t][a])]])

\* line 67: dropna(axis=1, how='all'), the columns missing in every row go.
DropAllNaNColumns(F) ==
  Frame(F.index,
        {a \in F.columns : \E t \in F.index : ~IsNaN(F.data[t][a])},
        [t \in F.index |->
           [a \in {c \in F.columns : \E u \in F.index : ~IsNaN(F.data[u][c])} |->
              F.data[t][a]]])

\* lines 64-67
MaskedReturns(spx_returns, presence_matrix_resampled) ==
  DropAllNaNColumns(Multiplied(spx_returns, GatingPresence(presence_matrix_resampled)))

\* line 73: groupby(axis=1, level='sector').mean(), in units of
\* 1/(RetScale*AssetLcm).
SectorAverage(spx500_returns) ==
  LET sectors == {SectorOf(a) : a \in spx500_returns.columns}
  IN Frame(spx500_returns.index, sectors,
           [t \in spx500_returns.index |->
              [s \in sectors |->
                 NanMeanScaled(spx500_returns.data[t],
                               {a \in spx500_returns.columns : SectorOf(a) = s},
                               AssetLcm)]])

\* line 77: the series the rolling mean is taken of.
MomentumInput_Unshifted(sector_avg_returns) == sector_avg_returns
MomentumInput(sector_avg_returns) == Shift1(sector_avg_returns)

\* line 77: .rolling(window, min_periods=1).mean() of the shifted sector
\* returns, in units of 1/(RetScale*AssetLcm*PeriodLcm).
SectorMomentum(sector_avg_returns, window) ==
  LET shifted == MomentumInput(sector_avg_returns)
      idx == sector_avg_returns.index
      rows(t) == {u \in idx : u <= t /\ Cardinality({v \in idx : u < v /\ v <= t}) < window}
  IN Frame(idx, sector_avg_returns.columns,
           [t \in idx |->
              [s \in sector_avg_returns.columns |->
                 NanMeanScaled([u \in rows(t) |-> shifted.data[u][s]], rows(t), PeriodLcm)]])

Min(a, b) == IF a <= b THEN a ELSE b

\* line 86
NumSelectedSectors_NoHalving(num_sectors, num_available_sectors) ==
  Min(num_sectors, num_available_sectors)
NumSelectedSectors(num_sectors, num_available_sectors) ==
  Min(num_sectors, num_available_sectors \div 2)

\* Series.nlargest(n) / nsmallest(n), keep='first': the n best by value, the
\* earlier column first among equal values.
NLargest(momentum, valid, n) ==
  {s \in valid :
     Cardinality({r \in valid : momentum[r] > momentum[s]
                                \/ (momentum[r] = momentum[s] /\ r < s)}) < n}
NSmallest(momentum, valid, n) ==
  {s \in valid :
     Cardinality({r \in valid : momentum[r] < momentum[s]
                                \/ (momentum[r] = momentum[s] /\ r < s)}) < n}

\* lines 83-93, one row: the sectors marked 1 in the top and in the bottom
\* presence matrix.
SelectRow(momentum, columns, num_sectors) ==
  LET valid_momentum == {s \in columns : ~IsNaN(momentum[s])}
      num_selected_sectors == NumSelectedSectors(num_sectors, Cardinality(valid_momentum))
  IN IF num_selected_sectors = 0
     THEN [top |-> {}, bottom |-> {}]
     ELSE [top |-> NLargest(momentum, valid_momentum, num_selected_sectors),
           bottom |-> NSmallest(momentum, valid_momentum, num_selected_sectors)]

PresenceMatrix(index, columns, selected) ==
  Frame(index, columns,
        [t \in index |-> [s \in columns |-> IF s \in selected[t] THEN 1 ELSE 0]])

\* x / total in units of 1/WScale: 0/0 is missing.
DivRowSum(x, total) == IF total = 0 THEN NaN ELSE x * (WScale \div total)

\* DataFrame.fillna(0) at the end of lines 96 and 97.
FillPositions_Dropped(x) == x
FillPositions(x) == FillNa0(x)

\* lines 96-97: presence.div(presence.sum(axis=1), axis=0).fillna(0)
EqualWeights(presence) ==
  Frame(presence.index, presence.columns,
        [t \in presence.index |->
           LET total == NanSum(presence.data[t], presence.columns)
           IN [s \in presence.columns |->
                 FillPositions(DivRowSum(presence.data[t][s], total))]])

Negated(F) ==
  Frame(F.index, F.columns,
        [t \in F.index |-> [c \in F.columns |-> Neg(F.data[t][c])]])

Added(F, G) ==
  Frame(F.index, F.columns,
        [t \in F.index |->
           [c \in F.columns |->
              IF IsNaN(F.data[t][c]) \/ IsNaN(G.data[t][c])
              THEN NaN ELSE F.data[t][c] + G.data[t][c]]])

\* line 130: (top + bottom).clip(upper=1)
ClippedSum(F, G) ==
  Frame(F.index, F.columns,
        [t \in F.index |->
           [c \in F.columns |-> Min(F.data[t][c] + G.data[t][c], 1)]])

\* lines 56-67: the date window of the returns and of the presence, masked.
WindowedReturns(spx_returns, presence_matrix_resampled, start_date, end_date) ==
  MaskedReturns(
    LocRows(spx_returns, DateMask(spx_returns.index, start_date, end_date)),
    LocRows(presence_matrix_resampled,
            DateMask(spx_returns.index, start_date, end_date)))

\* lines 45-67: the presence-masked returns of the configured date window.
Spx500Returns(self, prices, presence_matrix) ==
  WindowedReturns(PctChange(Resample(prices, Get(self.trading_frequency))),
                  Resample(presence_matrix, Get(self.trading_frequency)),
                  self.start_date, self.end_date)

\* line 77: rolling(window=window_size-1, ...)
MomentumWindow(trading_frequency) == _determine_window_size(trading_frequency) - 1

\* lines 72-77
MomentumOf(self, spx500_returns) ==
  SectorMomentum(SectorAverage(spx500_returns),
                 MomentumWindow(Get(self.trading_frequency)))

\* lines 80-93: the top and the bottom presence matrix.
TopPresence(sector_return_momentum, num_sectors) ==
  PresenceMatrix(sector_return_momentum.index, sector_return_momentum.columns,
                 [t \in sector_return_momentum.index |->
                    SelectRow(sector_return_momentum.data[t],
                              sector_return_momentum.columns, num_sectors).top])
BottomPresence(sector_return_momentum, num_sectors) ==
  PresenceMatrix(sector_return_momentum.index, sector_return_momentum.columns,
                 [t \in sector_return_momentum.index |->
                    SelectRow(sector_return_momentum.data[t],
                              sector_return_momentum.columns, num_sectors).bottom])

\* lines 96 and 100-101
LongPositions(top_presence_matrix, invert_long) ==
  IF invert_long
  THEN Negated(EqualWeights(top_presence_matrix))
  ELSE EqualWeights(top_presence_matrix)

\* lines 97 and 102-103
ShortPositions(bottom_presence_matrix, invert_short) ==
  IF invert_short
  THEN Negated(Negated(EqualWeights(bottom_presence_matrix)))
  ELSE Negated(EqualWeights(bottom_presence_matrix))

\* lines 105-120
PositionsFor(legs, long_positions, short_positions) ==
  CASE legs = "L" -> long_positions
    [] legs = "S" -> short_positions
    [] legs = "LS" -> Added(long_positions, short_positions)
    [] legs = "ALL" ->
         [Long |-> long_positions, Short |-> short_positions,
          Combined |-> Added(long_positions, short_positions)]

\* lines 95-130: what generate_signals stores, given the presence matrices.
StorePositions(self, sector_avg_returns, top_presence_matrix, bottom_presence_matrix) ==
  [self EXCEPT
     !.positions =
        Some(PositionsFor(self.legs,
                          LongPositions(top_presence_matrix, self.invert_long),
                          ShortPositions(bottom_presence_matrix, self.invert_short))),
     !.asset_returns = Some(sector_avg_returns),
     !.top_presence_matrix = Some(top_presence_matrix),
     !.bottom_presence_matrix = Some(bottom_presence_matrix),
     !.combined_presence_matrix =
        Some(ClippedSum(top_presence_matrix, bottom_presence_matrix))]

\* lines 79-93
StoreSelections(self, sector_avg_returns, sector_return_momentum) ==
  StorePositions(self, sector_avg_returns,
                 TopPresence(sector_return_momentum, self.num_sectors),
                 BottomPresence(sector_return_momentum, self.num_sectors))

\* lines 75-77
StoreMomentum(self, sector_avg_returns) ==
  StoreSelections(self, sector_avg_returns,
                  SectorMomentum(sector_avg_returns,
                                 MomentumWindow(Get(self.trading_frequency))))

\* lines 72-130: everything generate_signals stores once the window size is
\* known and the leg code is valid.
StoreSignals(self, spx500_returns) ==
  StoreMomentum(self, SectorAverage(spx500_returns))

\* lines 70-130, `stored` being the strategy with spx500_returns assigned.
SignalsFromReturns(stored) ==
  IF WindowSizeRaises(Get(stored.trading_frequency))
  THEN [self |-> stored, raised |-> Some("ValueError: Invalid trading frequency.")]
  ELSE IF stored.legs \notin valid_legs
  THEN [self |-> stored, raised |-> Some("ValueError: Invalid legs parameter")]
  ELSE [self |-> StoreSignals(stored, Get(stored.spx500_returns)), raised |-> None]

\* generate_signals: the strategy after the call, and the exception it raised
\* (None when it returned).
generate_signals(self, prices, presence_matrix) ==
  IF self.trading_frequency = None
  THEN [self |-> self, raised |-> Some("TypeError: resample")]
  ELSE IF Get(self.trading_frequency) \notin PandasAliases
  THEN [self |-> self, raised |-> Some("ValueError: resample")]
  ELSE IF self.start_date = None
  THEN [self |-> self, raised |-> Some("TypeError: date comparison")]
  ELSE SignalsFromReturns(
         [self EXCEPT !.spx500_returns =
                         Some(Spx500Returns(self, prices, presence_matrix))])

\* lines 76-77: the rolling window generate_signals used, None when the call
\* left before line 77.
UsedWindow(self) ==
  IF self.spx500_returns = None
  THEN None
  ELSE IF WindowSizeRaises(Get(self.trading_frequency))
  THEN None
  ELSE Some(MomentumWindow(Get(self.trading_frequency)))

\* get_signals
get_signals(self) ==
  [asset_returns |-> self.asset_returns,
   trading_frequency |-> self.trading_frequency,
   positions |-> self.positions]

\* ------------------------------------------------------- backtest.py
BpsPerUnit == 10000

\* (asset_returns * positions).sum(axis=1), in units of
\* 1/(RetScale*AssetLcm*WScale).
WeightedReturns(asset_returns, positions) ==
  Series(positions.index,
         [t \in positions.index |->
            LET prod == [c \in positions.columns |->
                           Mul(asset_returns.data[t][c], positions.data[t][c])]
            IN NanSum(prod, positions.columns)])

\* adjust_returns_for_transaction_costs: returns - turnover * (bps / 10000),
\* in units of 1/(ret_unit*BpsPerUnit), where `returns` is in units of
\* 1/ret_unit and `turnover` in units of weight_unit = ret_unit/per_weight.
TransactionCosts_Percent(turnover_t, per_weight, transaction_cost_bps) ==
  turnover_t * per_weight * transaction_cost_bps * 100
TransactionCosts(turnover_t, per_weight, transaction_cost_bps) ==
  turnover_t * per_weight * transaction_cost_bps

adjust_returns_for_transaction_costs(returns, turnover, per_weight, transaction_cost_bps) ==
  Series(returns.index,
         [t \in returns.index |->
            (returns.data[t] * BpsPerUnit)
              - TransactionCosts(turnover.data[t], per_weight, transaction_cost_bps)])

\* line 61 and the keys of the positions dict, lines 116-120.
LegNames_ShortCode(legs) ==
  CASE legs = "ALL" -> {"Long", "Short", "Combined"}
    [] OTHER -> {legs}
LegNames(legs) ==
  CASE legs = "ALL" -> {"Long", "Short", "Combined"}
    [] legs = "L" -> {"Long"}
    [] legs = "S" -> {"Short"}
    [] legs = "LS" -> {"Combined"}

LegPositions(legs, positions, leg_name) ==
  IF legs = "ALL" THEN positions[leg_name] ELSE positions

\* lines 47 and 62
Key(name, leg_name) == name \o " - " \o leg_name

\* lines 48-52 and 63-67: the entry stored under one key.
Entry(adjusted_returns, turnover, trading_frequency) ==
  [returns |-> Some(adjusted_returns), turnover |-> Some(turnover),
   trading_frequency |-> trading_frequency]

\* lines 44-46 and 58-60
AdjustedLegReturns(asset_returns, positions, turnover, transaction_cost_bps) ==
  adjust_returns_for_transaction_costs(WeightedReturns(asset_returns, positions),
                                       turnover, RetScale * AssetLcm,
                                       transaction_cost_bps)

\* lines 42-52 and 56-67: the entry of one leg.
LegEntry(asset_returns, positions, trading_frequency, transaction_cost_bps) ==
  Entry(AdjustedLegReturns(asset_returns, positions, calculate_turnover(positions),
                           transaction_cost_bps),
        calculate_turnover(positions), trading_frequency)

LegOfKey(name, legs, key) == CHOOSE l \in LegNames(legs) : Key(name, l) = key

\* calculate_strategy_returns: the returns_data it returns, or the exception
\* it raises (calculate_turnover on positions without rows).
calculate_strategy_returns(strategy, signals, transaction_cost_bps) ==
  IF \E leg \in LegNames(strategy.legs) :
       TurnoverRaises(LegPositions(strategy.legs, Get(signals.positions), leg))
  THEN [returns_data |-> << >>, raised |-> Some("IndexError: positions.iloc[0]")]
  ELSE [returns_data |->
          [key \in {Key(strategy.name, leg) : leg \in LegNames(strategy.legs)} |->
             LegEntry(Get(signals.asset_returns),
                      LegPositions(strategy.legs, Get(signals.positions),
                                   LegOfKey(strategy.name, strategy.legs, key)),
                      signals.trading_frequency, transaction_cost_bps)],
        raised |-> None]

\* dict.update
Update(d, e) ==
  [k \in (DOMAIN d) \cup (DOMAIN e) |-> IF k \in DOMAIN e THEN e[k] ELSE d[k]]

\* run_backtest, lines 14-18
SeedBenchmark(returns_dict, benchmark) ==
  Update(returns_dict,
         [k \in {"Benchmark"} |->
            [returns |-> benchmark.returns, turnover |-> benchmark.turnover,
             trading_frequency |-> benchmark.trading_frequency]])

OnRaise_KeysReserved(returns_dict, strategy) ==
  Update(returns_dict,
         [k \in {Key(strategy.name, "Long"), Key(strategy.name, "Short"),
                 Key(strategy.name, "Combined")} |->
            [returns |-> None, turnover |-> None, trading_frequency |-> None]])

\* run_backtest: an exception in lines 23-26 leaves the loop before line 28.
OnRaise(returns_dict, strategy) == returns_dict

\* run_backtest, line 28, or the exception of line 26 propagating.
MergeReturns(returns_dict, strategy, res) ==
  IF res.raised # None
  THEN [returns_dict |-> OnRaise(returns_dict, strategy),
        strategy |-> strategy, raised |-> res.raised]
  ELSE [returns_dict |-> Update(returns_dict, res.returns_data),
        strategy |-> strategy, raised |-> None]

\* run_backtest, lines 24-28, or the exception of line 23 propagating.
ReturnsOfSignals(returns_dict, gen, transaction_cost_bps) ==
  IF gen.raised # None
  THEN [returns_dict |-> OnRaise(returns_dict, gen.self),
        strategy |-> gen.self, raised |-> gen.raised]
  ELSE MergeReturns(returns_dict, gen.self,
                    calculate_strategy_returns(gen.self, get_signals(gen.self),
                                               transaction_cost_bps))

\* run_backtest, lines 22-28: one iteration of the loop.
RunIteration(returns_dict, strategy, prices, presence_matrix, transaction_cost_bps) ==
  ReturnsOfSignals(returns_dict,
                   generate_signals(strategy, prices, presence_matrix),
                   transaction_cost_bps)

\* ------------------------------------------------------- benchmark.py
NewBenchmark == [returns |-> None, turnover |-> None, trading_frequency |-> None]

\* lines 27-32 (a None end_date is falsy: no upper limit).
BenchmarkDateMask(index, start_date, end_date) ==
  {t \in index : t >= start_date /\ (end_date = None \/ t <= Get(end_date))}

\* lines 23-34: the resampled, date-filtered prices or presence.
BenchmarkWindow(F, freq, start_date, end_date) ==
  LocRows(Resample(F, freq),
          BenchmarkDateMask(Resample(F, freq).index, start_date, end_date))

\* lines 37-43: the returns times the previous period's presence.
BenchmarkReturns(prices, presence_matrix) ==
  Multiplied(PctChange(prices), Shift1(presence_matrix))

\* x / total in units of 1/BScale: missing over missing, and 0/0, are missing.
DivMembers(x, total) ==
  IF IsNaN(x) \/ total = 0 THEN NaN ELSE x * (BScale \div total)

\* line 46: presence_shifted.div(presence_shifted.sum(axis=1), axis=0)
WeightsOfShifted(presence_shifted) ==
  Frame(presence_shifted.index, presence_shifted.columns,
        [t \in presence_shifted.index |->
           [a \in presence_shifted.columns |->
              DivMembers(presence_shifted.data[t][a],
                         NanSum(presence_shifted.data[t], presence_shifted.columns))]])

\* lines 40 and 46
BenchmarkWeights(presence_matrix) == WeightsOfShifted(Shift1(presence_matrix))

\* line 51: turnover.iloc[0] = weights.iloc[0].abs().sum()
BenchmarkInitialTurnover(turnover, weights) ==
  Series(turnover.index,
         [t \in turnover.index |->
            IF t = FirstLabel(weights.index)
            THEN NanSum([c \in weights.columns |->
                           Abs(weights.data[FirstLabel(weights.index)][c])],
                        weights.columns)
            ELSE turnover.data[t]])

FillSeries(S) == Series(S.index, [t \in S.index |-> FillNa0(S.data[t])])

\* lines 49-51 and 58
BenchmarkTurnover(weights) ==
  FillSeries(BenchmarkInitialTurnover(AbsRowSum(Diff(weights)), weights))

\* lines 54 and 57, in units of 1/(RetScale*BScale)
BenchmarkPortfolioReturns(returns, weights) ==
  FillSeries(WeightedReturns(returns, weights))

\* lines 61-62, in units of 1/(RetScale*BScale*BpsPerUnit)
BenchmarkAdjusted(returns, turnover, transaction_cost_bps) ==
  Series(returns.index,
         [t \in returns.index |->
            (returns.data[t] * BpsPerUnit)
              - (turnover.data[t] * RetScale * transaction_cost_bps)])

\* lines 57-62
StoreBenchmark(self, portfolio_returns, turnover, transaction_cost_bps) ==
  [self EXCEPT
     !.turnover = Some(turnover),
     !.returns = Some(BenchmarkAdjusted(portfolio_returns, turnover,
                                        transaction_cost_bps))]

\* lines 46-62
BenchmarkFromWeights(self, returns, weights, transaction_cost_bps) ==
  IF weights.index = {}
  THEN [self |-> self, raised |-> Some("IndexError: weights.iloc[0]")]
  ELSE [self |-> StoreBenchmark(self, BenchmarkPortfolioReturns(returns, weights),
                                BenchmarkTurnover(weights), transaction_cost_bps),
        raised |-> None]

\* lines 23-62
BenchmarkFromWindow(self, prices, presence_matrix, transaction_cost_bps) ==
  BenchmarkFromWeights(self, BenchmarkReturns(prices, presence_matrix),
                       BenchmarkWeights(presence_matrix), transaction_cost_bps)

\* calculate_returns: the benchmark after the call, and the exception raised.
calculate_returns(self, prices_raw, presence_raw, trading_frequency, start_date, end_date, transaction_cost_bps) ==
  IF Upper(trading_frequency) \notin PandasAliases
  THEN [self |-> [self EXCEPT !.trading_frequency = Some(Upper(trading_frequency))],
        raised |-> Some("ValueError: resample")]
  ELSE BenchmarkFromWindow(
         [self EXCEPT !.trading_frequency = Some(Upper(trading_frequency))],
         BenchmarkWindow(prices_raw, Upper(trading_frequency), start_date, end_date),
         BenchmarkWindow(presence_raw, Upper(trading_frequency), start_date, end_date),
         transaction_cost_bps)

\* ---------------------------------------------------------------- state
VARIABLES
  prices,        \* DataLoader.get_prices(), one row per period end
  presence,      \* DataLoader.get_presence_matrix()
  config,        \* the Config shared by the benchmark and the strategies
  strategies,    \* the strategy objects, by identity
  order,         \* Backtest.strategies: the list handed to the orchestrator
  benchmark,     \* the Benchmark object
  bench_args,    \* the arguments of the last Benchmark.calculate_returns call
  returns_dict,  \* Backtest.returns_dict, the Results Collection
  pc,            \* run_backtest: "idle", "running", "done" or "failed"
  idx,           \* run_backtest: position of the loop in `order`
  call,          \* the last call made by the caller
  window,        \* generate_signals: the rolling window of line 77, or None
  raised,        \* the exception that call raised, or None
  positions_in,  \* the argument of a direct calculate_turnover call
  turnover_out   \* its result

vars == <<prices, presence, config, strategies, order, benchmark, bench_args,
          returns_dict, pc, idx, call, window, raised, positions_in, turnover_out>>

StrategyIds == 1 .. NumStrategies

\* ------------------------------------------------------------ the panels
\* An asset's history: no price before `listed`, price p0 before `flip` and
\* p1 from it on; a member of the index except in the periods `absent`.
Flat == [listed |-> 0, p0 |-> 1, p1 |-> 1, flip |-> 0, absent |-> {}]
Rises == [listed |-> 0, p0 |-> 1, p1 |-> 2, flip |-> 1, absent |-> {}]
Falls == [listed |-> 0, p0 |-> 2, p1 |-> 1, flip |-> 1, absent |-> {}]
Late == [listed |-> 1, p0 |-> 1, p1 |-> 2, flip |-> 2, absent |-> {}]
Joins == [listed |-> 0, p0 |-> 1, p1 |-> 2, flip |-> 1, absent |-> {0}]

ProfileList == <<Rises, Flat, Falls, Late, Joins>>

PriceOf(h, t) == IF t < h.listed THEN NaN ELSE IF t < h.flip THEN h.p0 ELSE h.p1
PresenceOf(h, t) == IF t \in h.absent THEN 0 ELSE 1

PricePanel(hist) ==
  Frame(Periods, Assets, [t \in Periods |-> [a \in Assets |-> PriceOf(hist[a], t)]])
PresencePanel(hist) ==
  Frame(Periods, Assets, [t \in Periods |-> [a \in Assets |-> PresenceOf(hist[a], t)]])

\* A few assignments: the list of histories, rotated.
RotatedHistories ==
  {[a \in Assets |-> ProfileList[((a + r) % Len(ProfileList)) + 1]] : r \in {0, 1}}

CostBps == {0, 25}

ListOrders(S) ==
  {q \in [1 .. Cardinality(S) -> S] : \A i, j \in DOMAIN q : q[i] = q[j] => i = j}

InitCommon ==
  /\ strategies = [i \in StrategyIds |-> NewStrategy]
  /\ benchmark = NewBenchmark
  /\ bench_args = None
  /\ returns_dict = << >>
  /\ pc = "idle"
  /\ idx = 0
  /\ call = "init"
  /\ window = None
  /\ raised = None
  /\ positions_in = << >>
  /\ turnover_out = None

\* ------------------------------------------------- arguments of the calls
WithK(k) == [NoKwargs EXCEPT !.num_sectors = Some(k)]

\* set_parameters(**kwargs) of the strategy whose signals are examined.
SignalKwargs ==
  {NoKwargs, WithK(0), WithK(1),
   [WithK(1) EXCEPT !.start_date = Some(1)],
   [WithK(1) EXCEPT !.legs = Some("ls")],
   [WithK(2) EXCEPT !.legs = Some("l")],
   [WithK(2) EXCEPT !.legs = Some("s")],
   [WithK(1) EXCEPT !.invert_long = Some(TRUE), !.invert_short = Some(TRUE)]}

\* set_parameters(**kwargs) of the strategies handed to the orchestrator.
FirstKwargs ==
  {[WithK(1) EXCEPT !.legs = Some(l)] : l \in {"L", "LS", "ALL", "x"}}
  \cup {[WithK(2) EXCEPT !.legs = Some("l")]}
  \cup {[WithK(1) EXCEPT !.legs = Some("L"), !.trading_frequency = Some("q")],
        [WithK(1) EXCEPT !.trading_frequency = Some("xyz")],
        [WithK(1) EXCEPT !.start_date = Some(2), !.end_date = Some(1)]}
OtherKwargs ==
  {[WithK(2) EXCEPT !.legs = Some("L")],
   [WithK(1) EXCEPT !.legs = Some("S")],
   [WithK(1) EXCEPT !.legs = Some("LS"), !.start_date = Some(2), !.end_date = Some(1)]}
OrchKwargs(i) == IF i = 1 THEN FirstKwargs ELSE OtherKwargs

\* Benchmark.calculate_returns(trading_frequency, start_date, end_date)
BenchArgs ==
  {[trading_frequency |-> "M", start_date |-> 0, end_date |-> None],
   [trading_frequency |-> "m", start_date |-> 1, end_date |-> None],
   [trading_frequency |-> "xyz", start_date |-> 0, end_date |-> None],
   [trading_frequency |-> "M", start_date |-> 2, end_date |-> Some(1)]}

\* --------------------------------------------------------------- actions
\* strategy.set_parameters(**kwargs), called once on a new strategy
SetParameters(i, kwargs) ==
  /\ pc = "idle"
  /\ strategies[i] = NewStrategy
  /\ strategies' = [strategies EXCEPT ![i] = AssignParameters(strategies[i], kwargs)]
  /\ call' = "set_parameters"
  /\ raised' = IF SetParametersRaises(strategies[i], kwargs)
               THEN Some("ValueError: Invalid legs parameter") ELSE None
  /\ UNCHANGED <<prices, presence, config, order, benchmark, bench_args,
                 returns_dict, pc, idx, window, positions_in, turnover_out>>

\* strategy.generate_signals(), called directly
GenerateSignalsTo(i, gen) ==
  /\ strategies' = [strategies EXCEPT ![i] = gen.self]
  /\ window' = UsedWindow(gen.self)
  /\ raised' = gen.raised
GenerateSignals(i) ==
  /\ pc = "idle"
  /\ strategies[i].spx500_returns = None
  /\ GenerateSignalsTo(i, generate_signals(strategies[i], prices, presence))
  /\ call' = "generate_signals"
  /\ UNCHANGED <<prices, presence, config, order, benchmark, bench_args,
                 returns_dict, pc, idx, positions_in, turnover_out>>

\* benchmark.calculate_returns(...)
CalculateReturnsTo(res) ==
  /\ benchmark' = res.self
  /\ raised' = res.raised
CalculateReturns(args) ==
  /\ pc = "idle"
  /\ bench_args = None
  /\ CalculateReturnsTo(
       calculate_returns(benchmark, prices, presence, args.trading_frequency,
                         args.start_date, args.end_date,
                         config.transaction_cost_bps))
  /\ bench_args' = Some(args)
  /\ call' = "calculate_returns"
  /\ UNCHANGED <<prices, presence, config, strategies, order, returns_dict, pc,
                 idx, window, positions_in, turnover_out>>

\* backtest.run_backtest(), lines 14-18
RunBacktest ==
  /\ pc = "idle"
  /\ returns_dict' = SeedBenchmark(returns_dict, benchmark)
  /\ pc' = IF Len(order) = 0 THEN "done" ELSE "running"
  /\ idx' = 1
  /\ call' = "run_backtest"
  /\ raised' = None
  /\ UNCHANGED <<prices, presence, config, strategies, order, benchmark,
                 bench_args, window, positions_in, turnover_out>>

\* backtest.run_backtest(), lines 21-28: one iteration of the loop; an
\* exception ends the call.
RunStrategyTo(i, it) ==
  /\ returns_dict' = it.returns_dict
  /\ strategies' = [strategies EXCEPT ![i] = it.strategy]
  /\ window' = UsedWindow(it.strategy)
  /\ raised' = it.raised
  /\ pc' = IF it.raised # None THEN "failed"
           ELSE IF idx = Len(order) THEN "done" ELSE "running"
  /\ idx' = IF it.raised # None THEN idx ELSE idx + 1
RunStrategy ==
  /\ pc = "running"
  /\ RunStrategyTo(order[idx],
                   RunIteration(returns_dict, strategies[order[idx]], prices,
                                presence, config.transaction_cost_bps))
  /\ UNCHANGED <<prices, presence, config, order, benchmark, bench_args, call,
                 positions_in, turnover_out>>

\* ---------------------------------------------------- the backtest run
Init ==
  /\ InitCommon
  /\ \E hist \in RotatedHistories :
       /\ prices = PricePanel(hist)
       /\ presence = PresencePanel(hist)
  /\ config \in [transaction_cost_bps : CostBps]
  /\ order \in ListOrders(StrategyIds)

Next ==
  \/ \E i \in StrategyIds : \E kwargs \in OrchKwargs(i) : SetParameters(i, kwargs)
  \/ \E args \in BenchArgs : CalculateReturns(args)
  \/ RunBacktest
  \/ RunStrategy

Spec == Init /\ [][Next]_vars

\* ---------------------------------------------- calculate_turnover alone
PositionValues == {-1, 0, 1}

\* A position matrix of n rows: row labels 0 .. n-1, columns 1 .. TurnCols.
PositionMatrices(n) ==
  {Frame(0 .. (n - 1), 1 .. TurnCols, d) :
     d \in [0 .. (n - 1) -> [1 .. TurnCols -> PositionValues]]}

\* calculate_turnover(positions), called directly
CalculateTurnover ==
  /\ call = "init"
  /\ call' = "calculate_turnover"
  /\ raised' = IF TurnoverRaises(positions_in)
               THEN Some("IndexError: positions.iloc[0]") ELSE None
  /\ turnover_out' = IF TurnoverRaises(positions_in)
                     THEN None ELSE Some(calculate_turnover(positions_in))
  /\ UNCHANGED <<prices, presence, config, strategies, order, benchmark,
                 bench_args, returns_dict, pc, idx, window, positions_in>>

FixedPanel == [a \in Assets |-> Flat]

InitTurnover ==
  /\ strategies = [i \in StrategyIds |-> NewStrategy]
  /\ benchmark = NewBenchmark
  /\ bench_args = None
  /\ returns_dict = << >>
  /\ pc = "idle"
  /\ idx = 0
  /\ call = "init"
  /\ window = None
  /\ raised = None
  /\ turnover_out = None
  /\ prices = PricePanel(FixedPanel)
  /\ presence = PresencePanel(FixedPanel)
  /\ config = [transaction_cost_bps |-> 0]
  /\ order = << >>
  /\ \E n \in 0 .. TurnRows : positions_in \in PositionMatrices(n)

NextTurnover == CalculateTurnover

SpecTurnover == InitTurnover /\ [][NextTurnover]_vars

\* ------------------------------------------------ generate_signals alone
SignalProfiles == {Falls, Late, Joins}

InitSignals ==
  /\ InitCommon
  /\ \E hist \in [Assets -> SignalProfiles] :
       /\ prices = PricePanel(hist)
       /\ presence = PresencePanel(hist)
  /\ config = [transaction_cost_bps |-> 0]
  /\ order = << >>

NextSignals ==
  \/ \E kwargs \in SignalKwargs : SetParameters(1, kwargs)
  \/ GenerateSignals(1)

SpecSignals == InitSignals /\ [][NextSignals]_vars

\* ================================================================ claims
AbsValue(x) == IF x < 0 THEN 0 - x ELSE x

RECURSIVE SumOver(_, _)
SumOver(S, f) ==
  IF S = {} THEN 0
  ELSE LET x == CHOOSE y \in S : TRUE IN f[x] + SumOver(S \ {x}, f)

ScenarioPositions ==
  [index |-> {0, 1, 2}, columns |-> {1, 2},
   data |-> (0 :> (1 :> 1 @@ 2 :> 0)) @@ (1 :> (1 :> 0 @@ 2 :> 1))
            @@ (2 :> (1 :> 0 @@ 2 :> 1))]

\* C1: for every position matrix P with at least one row, calculate_turnover
\* returns a series T over the rows of P with T[0] the sum of the absolute
\* values of row 0 and, for t > 0, T[t] the sum over the columns of
\* |P[t] - P[t-1]|; positions [[1,0],[0,1],[0,1]] give [1, 2, 0].
C1_TurnoverIdentity ==
  (call = "calculate_turnover" /\ positions_in.index # {}) =>
    /\ raised = None
    /\ turnover_out # None
    /\ Get(turnover_out).index = positions_in.index
    /\ \A t \in positions_in.index :
         Get(turnover_out).data[t] =
           IF t = 0
           THEN SumOver(positions_in.columns,
                        [c \in positions_in.columns |->
                           AbsValue(positions_in.data[0][c])])
           ELSE SumOver(positions_in.columns,
                        [c \in positions_in.columns |->
                           AbsValue(positions_in.data[t][c]
                                    - positions_in.data[t - 1][c])])
    /\ (positions_in = ScenarioPositions =>
          Get(turnover_out).data = (0 :> 1 @@ 1 :> 2 @@ 2 :> 0))

\* C1 witness: the scenario matrix has been given to calculate_turnover and
\* its first row was charged.
C1_Witness ==
  /\ call = "calculate_turnover"
  /\ positions_in = ScenarioPositions
  /\ turnover_out # None
  /\ Get(turnover_out).data[0] = 1

\* ---- the signals of strategy 1 after generate_signals returned
SignalsReturned == call = "generate_signals" /\ raised = None

Marked(presence_row, columns) == {s \in columns : presence_row[s] = 1}

StoredLegs(self) ==
  IF self.legs = "ALL" THEN {"Long", "Short", "Combined"}
  ELSE IF self.legs = "L" THEN {"Long"}
  ELSE IF self.legs = "S" THEN {"Short"}
  ELSE {"Combined"}

StoredPositions(self, leg) ==
  IF self.legs = "ALL" THEN Get(self.positions)[leg] ELSE Get(self.positions)

\* The weights the claim prescribes for one row: sign/n on the selected
\* sectors, 0 elsewhere, in units of 1/WScale.
PrescribedRow(columns, selected, sign) ==
  [s \in columns |->
     IF s \in selected THEN sign * (WScale \div Cardinality(selected)) ELSE 0]

C3RowHolds(self, t, top, bottom) ==
  /\ "Long" \in StoredLegs(self) =>
       /\ StoredPositions(self, "Long").data[t]
            = PrescribedRow(StoredPositions(self, "Long").columns, top, 1)
       /\ top # {} =>
            SumOver(StoredPositions(self, "Long").columns,
                    StoredPositions(self, "Long").data[t]) = WScale
  /\ "Short" \in StoredLegs(self) =>
       /\ StoredPositions(self, "Short").data[t]
            = PrescribedRow(StoredPositions(self, "Short").columns, bottom, -1)
       /\ bottom # {} =>
            SumOver(StoredPositions(self, "Short").columns,
                    StoredPositions(self, "Short").data[t]) = 0 - WScale
  /\ ("Combined" \in StoredLegs(self) /\ top = {} /\ bottom = {}) =>
       \A s \in StoredPositions(self, "Combined").columns :
          StoredPositions(self, "Combined").data[t][s] = 0

C3Holds(self) ==
  \A t \in Get(self.top_presence_matrix).index :
     C3RowHolds(self, t,
                Marked(Get(self.top_presence_matrix).data[t],
                       Get(self.top_presence_matrix).columns),
                Marked(Get(self.bottom_presence_matrix).data[t],
                       Get(self.bottom_presence_matrix).columns))

\* C3: in the position matrices generate_signals produces with no inversion,
\* in every period with a selection the long weights sum to 1 and the short
\* weights to -1, each selected sector carrying 1/n (long) or -1/n (short)
\* and each other sector 0; in a period without a selection every entry of
\* the long, short and combined rows is 0, never missing.
C3_EqualWeights ==
  (SignalsReturned /\ ~strategies[1].invert_long /\ ~strategies[1].invert_short)
    => C3Holds(strategies[1])

\* C3 witness: signals without inversion in ALL mode, one period with a
\* selection and one without.
C3_Witness ==
  /\ SignalsReturned
  /\ ~strategies[1].invert_long /\ ~strategies[1].invert_short
  /\ strategies[1].legs = "ALL"
  /\ \E t, u \in Get(strategies[1].top_presence_matrix).index :
       /\ Marked(Get(strategies[1].top_presence_matrix).data[t], AllSectors) # {}
       /\ Get(strategies[1].positions).Long.data[t] # [s \in AllSectors |-> 0]
       /\ Marked(Get(strategies[1].top_presence_matrix).data[u],
                 Get(strategies[1].top_presence_matrix).columns) = {}
       /\ Marked(Get(strategies[1].bottom_presence_matrix).data[u],
                 Get(strategies[1].bottom_presence_matrix).columns) = {}

ValidSectors(momentum_row, columns) == {s \in columns : momentum_row[s] # NaN}

SmallerOf(a, b) == IF a <= b THEN a ELSE b

C4RowHolds(num_sectors, momentum_row, valid, top, bottom) ==
  /\ Cardinality(top) = SmallerOf(num_sectors, Cardinality(valid) \div 2)
  /\ Cardinality(bottom) = Cardinality(top)
  /\ top \subseteq valid
  /\ bottom \subseteq valid
  /\ \A s \in top : \A r \in valid \ top : momentum_row[s] >= momentum_row[r]
  /\ \A s \in bottom : \A r \in valid \ bottom : momentum_row[s] <= momentum_row[r]

C4Holds(self, sector_return_momentum) ==
  /\ Get(self.top_presence_matrix).index = sector_return_momentum.index
  /\ \A t \in sector_return_momentum.index :
       C4RowHolds(self.num_sectors, sector_return_momentum.data[t],
                  ValidSectors(sector_return_momentum.data[t],
                               sector_return_momentum.columns),
                  Marked(Get(self.top_presence_matrix).data[t],
                         sector_return_momentum.columns),
                  Marked(Get(self.bottom_presence_matrix).data[t],
                         sector_return_momentum.columns))

\* C4: in every period, with a the number of sectors whose momentum score is
\* not missing and k the configured num_sectors, generate_signals marks
\* exactly min(k, a // 2) sectors long, the ones with the highest scores, and
\* as many short, the ones with the lowest scores; with a count of 0 nothing
\* is marked and the call returns without an error.
C4_SelectionCount ==
  (call = "generate_signals"
     /\ strategies[1].trading_frequency # None
     /\ strategies[1].legs \in valid_legs)
    => /\ raised = None
       /\ C4Holds(strategies[1],
                  MomentumOf(strategies[1], Get(strategies[1].spx500_returns)))

\* C4 witness: a period with an odd number of scored sectors, fewer of them
\* marked than num_sectors asks for, and a period with none marked.
C4_Witness ==
  /\ SignalsReturned
  /\ strategies[1].num_sectors = 2
  /\ \E t, u \in Get(strategies[1].top_presence_matrix).index :
       /\ Cardinality(ValidSectors(
             MomentumOf(strategies[1], Get(strategies[1].spx500_returns)).data[t],
             Get(strategies[1].top_presence_matrix).columns)) = 3
       /\ Cardinality(Marked(Get(strategies[1].top_presence_matrix).data[t],
                             Get(strategies[1].top_presence_matrix).columns)) = 1
       /\ Marked(Get(strategies[1].top_presence_matrix).data[u],
                 Get(strategies[1].top_presence_matrix).columns) = {}

\* The panels with everything that cannot determine a return before period t
\* replaced by a fixed value: the prices of the periods from t on, and the
\* presence of the periods from t-1 on (the presence of period u gates the
\* return of period u+1).
ErasedPrices(F, t) ==
  Frame(F.index, F.columns,
        [u \in F.index |-> [a \in F.columns |-> IF u >= t THEN 1 ELSE F.data[u][a]]])
ErasedPresence(F, t) ==
  Frame(F.index, F.columns,
        [u \in F.index |-> [a \in F.columns |-> IF u >= t - 1 THEN 1 ELSE F.data[u][a]]])

\* A row of a position matrix over every sector: a sector without a column
\* holds no position.
RowOver(F, t) ==
  [s \in AllSectors |-> IF s \in F.columns THEN F.data[t][s] ELSE 0]

SameRowsAt(self, other, t) ==
  \A leg \in StoredLegs(self) :
     RowOver(StoredPositions(self, leg), t) = RowOver(StoredPositions(other, leg), t)

NoLookAhead(self, price_panel, presence_panel) ==
  \A t \in Get(self.spx500_returns).index :
     SameRowsAt(self,
                generate_signals(self, ErasedPrices(price_panel, t),
                                 ErasedPresence(presence_panel, t)).self,
                t)

\* The return attributed to asset a at period t: the price change from t-1
\* to t times the presence at t-1; nothing at the first period of the window.
GatedByPreviousPresence(spx500_returns, price_panel, presence_panel) ==
  \A t \in spx500_returns.index : \A a \in spx500_returns.columns :
     spx500_returns.data[t][a] =
       IF t = FirstLabel(spx500_returns.index) \/ price_panel.data[t][a] = NaN
          \/ price_panel.data[t - 1][a] = NaN
       THEN NaN
       ELSE (((price_panel.data[t][a] * RetScale) \div price_panel.data[t - 1][a])
               - RetScale) * presence_panel.data[t - 1][a]

\* C10: no look-ahead.  The long, short and combined positions of period t
\* are the same when the prices from t on and the presence from t-1 on are
\* replaced (they depend only on returns of periods before t), and the
\* return attributed to an asset at t is gated by its presence at t-1.
C10_NoLookAhead ==
  SignalsReturned =>
    /\ NoLookAhead(strategies[1], prices, presence)
    /\ GatedByPreviousPresence(Get(strategies[1].spx500_returns), prices, presence)

\* C10 witness: an asset absent at period 0 whose price rose at period 1 is
\* attributed no return at period 1, and a sector is held at a later period.
C10_Witness ==
  /\ SignalsReturned
  /\ strategies[1].legs = "ALL"
  /\ strategies[1].start_date = Some(0)
  /\ \E a \in Get(strategies[1].spx500_returns).columns :
       /\ presence.data[0][a] = 0
       /\ presence.data[1][a] = 1
       /\ prices.data[1][a] # prices.data[0][a]
       /\ Get(strategies[1].spx500_returns).data[1][a] = 0
  /\ \E t \in Get(strategies[1].spx500_returns).index : \E s \in AllSectors :
       /\ t >= 2
       /\ RowOver(Get(strategies[1].positions).Long, t)[s] # 0

\* ---- the Results Collection during and after run_backtest
Started == pc \in {"running", "done", "failed"}

\* The strategies whose iteration of the loop has completed, by position.
ProcessedPositions == IF Started THEN 1 .. (idx - 1) ELSE {}

KeysOfStrategy(self) == {self.name \o " - " \o leg : leg \in StoredLegs(self)}

LabelOfKey(self, key) ==
  CHOOSE leg \in StoredLegs(self) : self.name \o " - " \o leg = key

LargestOf(S) == CHOOSE x \in S : \A y \in S : y <= x

\* The strategy whose iteration stored the entry under `key` last.
LastWriter(key) ==
  strategies[order[LargestOf({j \in ProcessedPositions :
                                key \in KeysOfStrategy(strategies[order[j]])})]]

SkipMissing(x) == IF x = NaN THEN 0 ELSE x

\* sum over the columns of asset_return[t, a] * position[t, a], a missing
\* product counting as nothing.
RawReturn(asset_returns, positions, t) ==
  SumOver(positions.columns,
          [c \in positions.columns |->
             IF asset_returns.data[t][c] = NaN \/ positions.data[t][c] = NaN
             THEN 0 ELSE asset_returns.data[t][c] * positions.data[t][c]])

\* stored = raw - turnover * cost_bps / 10000, with raw in units of
\* 1/ret_unit, turnover in units of per_weight/ret_unit and stored in units of
\* 1/(ret_unit * 10000).
CostAdjusted(entry, asset_returns, positions, per_weight, cost_bps) ==
  /\ Get(entry.returns).index = positions.index
  /\ Get(entry.turnover).index = positions.index
  /\ \A t \in positions.index :
       /\ Get(entry.returns).data[t] =
            (RawReturn(asset_returns, positions, t) * 10000)
              - (Get(entry.turnover).data[t] * per_weight * cost_bps)
       /\ cost_bps = 0 =>
            Get(entry.returns).data[t] = RawReturn(asset_returns, positions, t) * 10000

StrategyEntryAdjusted(key, self) ==
  CostAdjusted(returns_dict[key], Get(self.asset_returns),
               StoredPositions(self, LabelOfKey(self, key)),
               RetScale * AssetLcm, config.transaction_cost_bps)

BenchmarkEntryAdjusted(args) ==
  CostAdjusted(returns_dict["Benchmark"],
               BenchmarkReturns(
                 BenchmarkWindow(prices, Upper(args.trading_frequency),
                                 args.start_date, args.end_date),
                 BenchmarkWindow(presence, Upper(args.trading_frequency),
                                 args.start_date, args.end_date)),
               BenchmarkWeights(
                 BenchmarkWindow(presence, Upper(args.trading_frequency),
                                 args.start_date, args.end_date)),
               RetScale, config.transaction_cost_bps)

\* C2: for every entry of the Results Collection, the benchmark's and every
\* strategy leg's, and every period t, the stored return is
\* raw_return[t] - turnover[t] * cost_bps / 10000, with the turnover stored in
\* the same entry and raw_return[t] the sum over the columns of
\* asset_return * position; with cost_bps = 0 it is the raw return.
C2_CostAdjustedReturns ==
  Started =>
    /\ returns_dict["Benchmark"].returns # None => BenchmarkEntryAdjusted(Get(bench_args))
    /\ \A key \in (DOMAIN returns_dict) \ {"Benchmark"} :
         StrategyEntryAdjusted(key, LastWriter(key))

\* C2 witness: a finished run at a positive cost whose benchmark entry and
\* one strategy entry each were charged in some period.
C2_Witness ==
  /\ pc = "done"
  /\ config.transaction_cost_bps > 0
  /\ returns_dict["Benchmark"].returns # None
  /\ \E t \in Get(returns_dict["Benchmark"].turnover).index :
       Get(returns_dict["Benchmark"].turnover).data[t] > 0
  /\ \E key \in (DOMAIN returns_dict) \ {"Benchmark"} :
       \E t \in Get(returns_dict[key].turnover).index :
          /\ Get(returns_dict[key].turnover).data[t] > 0
          /\ Get(returns_dict[key].returns).data[t]
               # RawReturn(Get(LastWriter(key).asset_returns),
                           StoredPositions(LastWriter(key),
                                           LabelOfKey(LastWriter(key), key)), t) * 10000

\* C5: after run_backtest completes, the Results Collection holds the key
\* 'Benchmark' with the benchmark's own returns, turnover and trading
\* frequency, and for each strategy exactly the keys '<name> - <label>': Long
\* for leg code L, Short for S, Combined for LS, all three for ALL; no
\* strategy entry ever replaces the 'Benchmark' entry.
C5_ResultKeys ==
  /\ Started =>
       /\ "Benchmark" \in DOMAIN returns_dict
       /\ returns_dict["Benchmark"] =
            [returns |-> benchmark.returns, turnover |-> benchmark.turnover,
             trading_frequency |-> benchmark.trading_frequency]
  /\ pc = "done" =>
       DOMAIN returns_dict =
         {"Benchmark"}
           \cup UNION {{strategies[i].name \o " - " \o label :
                          label \in (CASE strategies[i].legs = "L" -> {"Long"}
                                       [] strategies[i].legs = "S" -> {"Short"}
                                       [] strategies[i].legs = "LS" -> {"Combined"}
                                       [] strategies[i].legs = "ALL" ->
                                            {"Long", "Short", "Combined"})} :
                        i \in StrategyIds}

\* C5 witness: a finished run of a Combined-only strategy and a Short-only
\* strategy next to a computed benchmark.
C5_Witness ==
  /\ pc = "done"
  /\ benchmark.returns # None
  /\ \E i, j \in StrategyIds : strategies[i].legs = "LS" /\ strategies[j].legs = "S"
  /\ DOMAIN returns_dict =
       {"Benchmark", "Momentum Sector Long-Short Strategy - Combined",
        "Momentum Sector Long-Short Strategy - Short"}

\* ---- configuration errors
\* A trading frequency the strategy has no window for.
UnrecognizedFrequency(self) ==
  self.trading_frequency # None
    /\ Get(self.trading_frequency) \notin {"D", "W", "2W", "M"}

EndBeforeStart(self) ==
  self.start_date # None /\ self.end_date # None
    /\ Get(self.end_date) < Get(self.start_date)

NothingComputed(self) ==
  /\ self.spx500_returns = None
  /\ self.asset_returns = None
  /\ self.positions = None
  /\ self.top_presence_matrix = None
  /\ self.bottom_presence_matrix = None
  /\ self.combined_presence_matrix = None

\* C6: a strategy configured with an unrecognized trading frequency or an end
\* date before the start date (its leg code being valid) holds no computed
\* data: the configuration error reaches the caller before any resampling,
\* return calculation or position construction, and a run that has gone
\* through such a strategy has failed.
C6_FailFast ==
  \A i \in StrategyIds :
     (strategies[i].legs \in valid_legs
        /\ (UnrecognizedFrequency(strategies[i]) \/ EndBeforeStart(strategies[i])))
       => /\ NothingComputed(strategies[i])
          /\ pc # "done"

\* C7: insertion is all-or-nothing per strategy.  When signal generation or
\* return calculation fails for a strategy, the Results Collection is left as
\* it was before that strategy: the 'Benchmark' entry and the entries of the
\* strategies processed before it are unchanged, and it holds no key but
\* 'Benchmark' and the keys those strategies stored.
C7_AllOrNothing ==
  [][pc' = "failed" =>
       /\ returns_dict' = returns_dict
       /\ DOMAIN returns_dict' =
            {"Benchmark"}
              \cup UNION {KeysOfStrategy(strategies[order[j]]) : j \in 1 .. (idx - 1)}]_vars

\* C7 witness: the second strategy of the list, in ALL mode, failed in the
\* return calculation after the first strategy's entry was stored.
C7_Witness ==
  /\ pc = "failed"
  /\ idx = 2
  /\ strategies[order[2]].legs = "ALL"
  /\ strategies[order[2]].positions # None
  /\ raised = Some("IndexError: positions.iloc[0]")
  /\ strategies[order[1]].legs = "S"
  /\ DOMAIN returns_dict =
       {"Benchmark", "Momentum Sector Long-Short Strategy - Short"}
  /\ returns_dict["Momentum Sector Long-Short Strategy - Short"].returns # None

\* The Results Collection run_backtest ends with when the loop goes through
\* the strategies in the order `list`, from position j on.
RECURSIVE ResultOfOrder(_, _, _)
ResultOfOrder(dict, list, j) ==
  IF j > Len(list) THEN dict
  ELSE ResultOfOrder(
         RunIteration(dict, strategies[list[j]], prices, presence,
                      config.transaction_cost_bps).returns_dict,
         list, j + 1)

\* C8: the strategies of the list write to pairwise disjoint sets of keys,
\* none of them 'Benchmark', so the final Results Collection is the same for
\* every order in which the strategies are processed.
C8_OrderIndependent ==
  pc = "done" =>
    /\ \A i, j \in StrategyIds :
         i # j => KeysOfStrategy(strategies[i]) \cap KeysOfStrategy(strategies[j]) = {}
    /\ \A i \in StrategyIds : "Benchmark" \notin KeysOfStrategy(strategies[i])
    /\ \A list \in ListOrders(StrategyIds) :
         ResultOfOrder(SeedBenchmark(<< >>, benchmark), list, 1) = returns_dict

\* An undefined weight counted as a zero position.
FlatBook(weights) ==
  [index |-> weights.index, columns |-> weights.columns,
   data |-> [t \in weights.index |->
               [a \in weights.columns |-> SkipMissing(weights.data[t][a])]]]

BenchmarkWeightsOf(args) ==
  BenchmarkWeights(BenchmarkWindow(presence, Upper(args.trading_frequency),
                                   args.start_date, args.end_date))

\* C9: Benchmark.turnover is the turnover function of stats_calculator
\* applied to the benchmark's weights from a flat book, undefined weights
\* counting as zero: the first period holding weights is charged the sum of
\* their absolute values, every later period the sum of the absolute changes.
C9_BenchmarkTurnover ==
  benchmark.turnover # None =>
    Get(benchmark.turnover).data
      = calculate_turnover(FlatBook(BenchmarkWeightsOf(Get(bench_args)))).data

\* --------------------------------- generate_signals at every frequency
FrequencyKwargs ==
  {[WithK(1) EXCEPT !.trading_frequency = Some(f)] :
     f \in {"d", "w", "2w", "m", "D", "M", "q", "xyz"}}

NextWindow ==
  \/ \E kwargs \in FrequencyKwargs : SetParameters(1, kwargs)
  \/ GenerateSignals(1)

SpecWindow == InitSignals /\ [][NextWindow]_vars

\* generate_signals was called on a strategy configured with frequency f.
SignalsCalledAt(f) ==
  call = "generate_signals" /\ strategies[1].trading_frequency = Some(f)

\* The window-size lookup failed: nothing past line 76 ran.
LookupFailed ==
  /\ window = None
  /\ raised # None
  /\ strategies[1].positions = None
  /\ (strategies[1].spx500_returns # None
        => raised = Some("ValueError: Invalid trading frequency."))

\* C11 (amended): the trailing window of the momentum mean has length
\* int((11/12) * periods_per_year) - 1, the product truncated, not rounded:
\* 230, 46, 22 and 10 periods for the frequencies D, W, 2W and M; with any
\* other frequency the call fails, in the window-size lookup whenever it
\* gets that far, and no window is used.
C11_WindowLength ==
  /\ SignalsCalledAt("D") => (raised = None /\ window = Some(230))
  /\ SignalsCalledAt("W") => (raised = None /\ window = Some(46))
  /\ SignalsCalledAt("2W") => (raised = None /\ window = Some(22))
  /\ SignalsCalledAt("M") => (raised = None /\ window = Some(10))
  /\ (call = "generate_signals" /\ strategies[1].trading_frequency # None
        /\ Get(strategies[1].trading_frequency) \notin {"D", "W", "2W", "M"})
       => LookupFailed

\* C11 witness: signals were generated at the weekly frequency over a
\* window of 46 periods, one less than rounding gives.
C11_Witness ==
  /\ SignalsCalledAt("W")
  /\ raised = None
  /\ window = Some(46)
  /\ strategies[1].positions # None

\* C11 as stated: the window has length round((11/12) * periods_per_year) - 1,
\* that is 230, 47, 23 and 10 periods for D, W, 2W and M.
C11_RoundedWindow ==
  /\ SignalsCalledAt("D") => window = Some(230)
  /\ SignalsCalledAt("W") => window = Some(47)
  /\ SignalsCalledAt("2W") => window = Some(23)
  /\ SignalsCalledAt("M") => window = Some(10)

\* The combined row of period t has n entries of +1/n and n entries of -1/n,
\* n being the number of sectors marked long.
CombinedRowSplits(combined_row, columns, n) ==
  n > 0 =>
    /\ Cardinality({s \in columns : combined_row[s] = WScale \div n}) = n
    /\ Cardinality({s \in columns : combined_row[s] = 0 - (WScale \div n)}) = n

\* C12: in every period the sectors selected long and the sectors selected
\* short are disjoint, tied scores included; hence with no inversion the
\* combined row has exactly n entries of +1/n and n entries of -1/n and no
\* sector's long and short weights cancel.
C12_DisjointLegs ==
  SignalsReturned =>
    \A t \in Get(strategies[1].top_presence_matrix).index :
       /\ Marked(Get(strategies[1].top_presence_matrix).data[t],
                 Get(strategies[1].top_presence_matrix).columns)
            \cap Marked(Get(strategies[1].bottom_presence_matrix).data[t],
                        Get(strategies[1].bottom_presence_matrix).columns) = {}
       /\ (~strategies[1].invert_long /\ ~strategies[1].invert_short
             /\ "Combined" \in StoredLegs(strategies[1]))
            => CombinedRowSplits(
                 StoredPositions(strategies[1], "Combined").data[t],
                 StoredPositions(strategies[1], "Combined").columns,
                 Cardinality(Marked(Get(strategies[1].top_presence_matrix).data[t],
                                    Get(strategies[1].top_presence_matrix).columns)))

\* C13: the configuration of every strategy is well-formed in every reachable
\* state, after construction and after every set_parameters call, a rejected
\* one included: legs is one of L, S, LS, ALL, and trading_frequency and
\* start_date are defined, so that a new strategy carries the documented
\* defaults and a rejected call leaves no invalid leg code behind.
C13_WellFormedConfig ==
  \A i \in StrategyIds :
     /\ strategies[i].legs \in {"L", "S", "LS", "ALL"}
     /\ strategies[i].trading_frequency # None
     /\ strategies[i].start_date # None

====
